---- MODULE Spec2Model ----
(***************************************************************************)
(* Adaptive reading-comprehension trainer (src/app.py): the Streamlit      *)
(* session state, the JSON user store, the two Gemini request loops with   *)
(* their validation, and the round life-cycle (start, submit, grade,       *)
(* adapt, next), one action per script run or per request attempt.         *)
(***************************************************************************)
EXTENDS Integers, Sequences, FiniteSets, TLC

\* ------------------------------------------------------------ constants
MIN_LEVEL == 1
MAX_LEVEL == 10
DEFAULT_LEVEL == 3
\* Python's None for a level (an admin has no level); None for strings;
\* an optional object is << >> (None) or <<x>>.
NoLevel == -1
NoneStr == "None"
None == << >>
\* max_retries of generate_reading_text and of generate_mc_questions
text_max_retries == 3
mc_max_retries == 3
\* the questions of a round: len(parsed_data) == 5
NUM_QUESTIONS == 5
\* len(generated_text) > 40
MIN_TEXT_CHARS == 40
\* len(new_password) < 6
MIN_PASSWORD_LEN == 6

ADMIN_USER == "mp@ufm.edu"
ADMIN_PASS == "moris123"

\* ------------------------------------------------------- input samples
\* What a user may type as a user name (before .lower().strip()).
RawUsernames == {"", "mp@ufm.edu", "ana@ufm.edu", " Ana@UFM.edu ", "luis"}
\* What a user may type as a password in the login form.
Passwords == {"", "abc", "moris123", "secret1"}
\* What a user may type as a password in the registration form.
NewPasswords == {"", "abc", "secret1"}
\* os.urandom(16).hex()
Salts == {"5a17"}
\* How many of the options A, B, C, D a student ticks among.
NumChoices == 2

\* str.lower().strip() on the sampled user names
lower_strip(s) ==
    CASE s = " Ana@UFM.edu " -> "ana@ufm.edu"
      [] OTHER -> s

\* len(password) on the sampled passwords
PasswordLen(p) ==
    CASE p = "" -> 0
      [] p = "abc" -> 3
      [] p = "moris123" -> 8
      [] p = "secret1" -> 7
      [] OTHER -> 0

\* "@" in new_username and "." in new_username.split('@')[-1]
email_format_ok(u) == u \in {"mp@ufm.edu", "ana@ufm.edu", "eva@ufm.edu"}

\* --------------------------------------------------------------- hashing
\* pbkdf2_hmac('sha256', password, salt, 100000): a digest that depends on
\* both arguments (collisions are not modelled)
pbkdf2(password, salt) == <<"sha256", password, salt>>

\* salt.hex() + ':' + pwd_hash.hex(); the pair stands for the joined string
hash_password(password, salt) == <<salt, pbkdf2(password, salt)>>

\* split(':'), recompute with the stored salt, compare
verify_password(stored_password_with_salt, provided_password) ==
    LET salt == stored_password_with_salt[1]
        stored_hash == stored_password_with_salt[2]
    IN pbkdf2(provided_password, salt) = stored_hash

\* ------------------------------------------------ generate_reading_text
\* A response of model.generate_content(prompt) to the text prompt:
\*   raises  the call raises (transport or API error)
\*   parts   response.parts is non-empty (false: blocked or empty response)
\*   text    response.text: ws (surrounding whitespace), chars = len of the
\*           text without it, words = its word count, phrase = the refusal
\*           phrase its lower-cased form contains ("" for none)
TextOf(ws, chars, words, phrase) ==
    [ws |-> ws, chars |-> chars, words |-> words, phrase |-> phrase]

TextResponses ==
    << [raises |-> TRUE,  parts |-> FALSE, text |-> TextOf(FALSE, 0, 0, "")],
       [raises |-> FALSE, parts |-> FALSE, text |-> TextOf(FALSE, 0, 0, "")],
       [raises |-> FALSE, parts |-> TRUE,  text |-> TextOf(TRUE, 40, 7, "")],
       [raises |-> FALSE, parts |-> TRUE,  text |-> TextOf(FALSE, 60, 11, "no puedo generar")],
       [raises |-> FALSE, parts |-> TRUE,  text |-> TextOf(FALSE, 75, 12, "contenido inapropiado")],
       [raises |-> FALSE, parts |-> TRUE,  text |-> TextOf(TRUE, 41, 8, "")],
       [raises |-> FALSE, parts |-> TRUE,  text |-> TextOf(FALSE, 900, 150, "")] >>

\* lines 133-152: the word range the prompt asks for at a level, as
\* <<fewest, most>> (the string "50-80" and its like)
words(level) ==
    IF level <= 2 THEN <<50, 80>>
    ELSE IF level <= 4 THEN <<80, 120>>
    ELSE IF level <= 6 THEN <<120, 180>>
    ELSE IF level <= 8 THEN <<180, 250>>
    ELSE <<250, 350>>

\* str.strip()
strip(text) == [text EXCEPT !.ws = FALSE]

\* len(str)
len(text) == text.chars + (IF text.ws THEN 2 ELSE 0)

RECURSIVE pow(_, _)
pow(b, e) == IF e = 0 THEN 1 ELSE b * pow(b, e - 1)

\* time.sleep(1.5 ** attempt): the delay as the fraction <<3^attempt, 2^attempt>>
backoff(attempt) == <<pow(3, attempt), pow(2, attempt)>>

\* What one pass through a loop body tells the loop:
\*   "return" leave the function with value; "next" go to the next
\*   iteration; "break" leave the loop; "raise" an exception propagates.
Signal(sig, value, sleeps, error) ==
    [sig |-> sig, value |-> value, sleeps |-> sleeps, error |-> error]

\* lines 188-197: after a rejected response
text_rejected(attempt, error) ==
    IF attempt < text_max_retries - 1
    THEN Signal("next", None, <<backoff(attempt)>>, error)
    ELSE Signal("return", None, << >>, error)

\* lines 168-197: the try block of one attempt
text_try_body(response, attempt) ==
    IF response.raises
    THEN Signal("raise", None, << >>, "exception")
    ELSE IF response.parts
         THEN LET generated_text == strip(response.text)
              IN IF /\ len(generated_text) > MIN_TEXT_CHARS
                    /\ generated_text.phrase # "no puedo generar"
                    /\ generated_text.phrase # "contenido inapropiado"
                 THEN Signal("return", <<generated_text>>, << >>, "")
                 ELSE text_rejected(attempt, "short_or_refusal")
         ELSE text_rejected(attempt, "no_parts")

\* lines 199-209: except Exception
text_except(attempt) ==
    IF attempt < text_max_retries - 1
    THEN Signal("next", None, <<backoff(attempt)>>, "exception")
    ELSE Signal("return", None, << >>, "exception")

\* an attempt whose exceptions are not caught
text_attempt_uncaught(response, attempt) == text_try_body(response, attempt)

\* lines 167-209: try ... except Exception of one attempt
text_attempt(response, attempt) ==
    LET body == text_try_body(response, attempt)
    IN IF body.sig = "raise" THEN text_except(attempt) ELSE body

\* for attempt in range(max_retries): whether the loop runs the body again
text_loop_continues(attempt) == attempt < text_max_retries

\* ------------------------------------------------ generate_mc_questions
\* JSON values as json.loads builds them: a str, a list, or a dict (its
\* keys in document order, vals the values beside them).
JStr(s) == [t |-> "str", s |-> s]
JNum(n) == [t |-> "num", n |-> n]
JList(items) == [t |-> "list", items |-> items]
JDict(keys, vals) == [t |-> "dict", keys |-> keys, vals |-> vals]

\* k in d
has_key(d, k) == \E i \in 1..Len(d.keys) : d.keys[i] = k

\* d[k]
get_item(d, k) == d.vals[CHOOSE i \in 1..Len(d.keys) : d.keys[i] = k]

ABCD == <<"A", "B", "C", "D">>

Options(a, b, c, d) == JDict(ABCD, <<JStr(a), JStr(b), JStr(c), JStr(d)>>)

Question(text, options, correct) ==
    JDict(<<"question", "options", "correct_answer">>,
          <<JStr(text), options, JStr(correct)>>)

GoodOptions == Options("uno", "dos", "tres", "cuatro")
Q(n, correct) == Question(n, GoodOptions, correct)

\* A list of five valid questions whose keys are A, B, A, B, B.
GoodList == JList(<<Q("q1", "A"), Q("q2", "B"), Q("q3", "A"), Q("q4", "B"), Q("q5", "B")>>)

\* GoodList with its third element replaced
WithThird(q) == JList(<<Q("q1", "A"), Q("q2", "B"), q, Q("q4", "B"), Q("q5", "B")>>)

\* The pieces a raw response text is made of.
Ws == [k |-> "ws"]
FenceJson == [k |-> "fence_json"]
Fence == [k |-> "fence"]
Junk == [k |-> "junk"]
Doc(v) == [k |-> "json", v |-> v]

\* The options a student ticks in the form.
Choices == {ABCD[i] : i \in 1..NumChoices}

\* A response of model.generate_content(prompt) to the questions prompt:
\*   raises       the call raises
\*   text_raises  reading response.text raises (a blocked response)
\*   text         response.text, as its pieces
McResponse(raises, text_raises, text) ==
    [raises |-> raises, text_raises |-> text_raises, text |-> text]

McResponses ==
    << McResponse(TRUE, FALSE, << >>),
       McResponse(FALSE, TRUE, << >>),
       McResponse(FALSE, FALSE, << >>),
       McResponse(FALSE, FALSE, <<Junk, Doc(GoodList)>>),
       McResponse(FALSE, FALSE, <<Fence, Ws, Doc(GoodList), Ws, Fence>>),
       McResponse(FALSE, FALSE, <<Doc(JStr("cinco preguntas"))>>),
       McResponse(FALSE, FALSE, <<Doc(JDict(<<"questions">>, <<GoodList>>))>>),
       McResponse(FALSE, FALSE, <<Doc(JList(<<Q("q1", "A"), Q("q2", "B"), Q("q3", "A"), Q("q4", "B")>>))>>),
       McResponse(FALSE, FALSE, <<Doc(WithThird(JStr("q3")))>>),
       McResponse(FALSE, FALSE, <<Doc(WithThird(JDict(<<"question", "options">>, <<JStr("q3"), GoodOptions>>)))>>),
       McResponse(FALSE, FALSE, <<Doc(WithThird(Q("", "A")))>>),
       McResponse(FALSE, FALSE, <<Doc(WithThird(Q("q3", "E")))>>),
       McResponse(FALSE, FALSE, <<Doc(WithThird(Question("q3", JList(<<JStr("uno")>>), "A")))>>),
       McResponse(FALSE, FALSE, <<Doc(WithThird(Question("q3", JDict(<<"A", "B", "C">>, <<JStr("uno"), JStr("dos"), JStr("tres")>>), "A")))>>),
       McResponse(FALSE, FALSE, <<Doc(WithThird(Question("q3", JDict(<<"A", "B", "C", "E">>, <<JStr("uno"), JStr("dos"), JStr("tres"), JStr("cuatro")>>), "A")))>>),
       McResponse(FALSE, FALSE, <<Doc(WithThird(Question("q3", Options("uno", "", "tres", "cuatro"), "A")))>>),
       McResponse(FALSE, FALSE, <<Doc(WithThird(Question("q3", JDict(ABCD, <<JStr("uno"), JNum(2), JStr("tres"), JStr("cuatro")>>), "A")))>>),
       McResponse(FALSE, FALSE, <<Doc(GoodList)>>),
       McResponse(FALSE, FALSE, <<Ws, FenceJson, Ws, Doc(GoodList), Ws, Fence, Ws>>) >>

\* str.strip() on the pieces: drop leading and trailing whitespace
RECURSIVE lstrip(_)
lstrip(text) ==
    IF Len(text) > 0 /\ text[1].k = "ws" THEN lstrip(Tail(text)) ELSE text

RECURSIVE rstrip(_)
rstrip(text) ==
    IF Len(text) > 0 /\ text[Len(text)].k = "ws"
    THEN rstrip(SubSeq(text, 1, Len(text) - 1))
    ELSE text

strip_pieces(text) == rstrip(lstrip(text))

\* lines 264-269: strip, drop a leading json fence, drop a trailing fence, strip
clean_json_text(raw_response_text) ==
    LET t1 == strip_pieces(raw_response_text)
        t2 == IF Len(t1) > 0 /\ t1[1].k = "fence_json" THEN Tail(t1) ELSE t1
        t3 == IF Len(t2) > 0 /\ t2[Len(t2)].k = "fence"
              THEN SubSeq(t2, 1, Len(t2) - 1) ELSE t2
    IN strip_pieces(t3)

\* json.loads succeeds exactly on one JSON document
json_loads_ok(json_response_text) ==
    Len(json_response_text) = 1 /\ json_response_text[1].k = "json"

json_loads(json_response_text) == json_response_text[1].v

\* a validation without the loop over the option values
no_bad_option_value(options) == FALSE

\* lines 308-310: any option value that is not a non-empty string
bad_option_value(options) ==
    \E i \in 1..Len(options.vals) :
        options.vals[i].t # "str" \/ options.vals[i].s = ""

\* lines 292-314: the checks on one element; "" when it passes them all
validate_question(q) ==
    IF q.t # "dict" THEN "not_dict"
    ELSE IF ~(\A i \in 1..3 : has_key(q, <<"question", "options", "correct_answer">>[i]))
    THEN "missing_keys"
    ELSE LET question == get_item(q, "question")
             correct_answer == get_item(q, "correct_answer")
             options == get_item(q, "options")
         IN IF question.t # "str" \/ question.s = "" THEN "bad_question"
            ELSE IF correct_answer.t # "str" \/ correct_answer.s \notin {"A", "B", "C", "D"}
            THEN "bad_correct_answer"
            ELSE IF options.t # "dict" THEN "options_not_dict"
            ELSE IF Len(options.keys) # 4 \/ ~(\A i \in 1..4 : has_key(options, ABCD[i]))
            THEN "bad_option_keys"
            ELSE IF bad_option_value(options) THEN "bad_option_value"
            ELSE IF ~has_key(options, correct_answer.s) THEN "answer_not_an_option"
            ELSE ""

\* lines 290-314: the first element that fails, in order; "" when none does
RECURSIVE validate_from(_, _)
validate_from(items, i) ==
    IF i > Len(items) THEN ""
    ELSE IF validate_question(items[i]) # "" THEN validate_question(items[i])
    ELSE validate_from(items, i + 1)

\* lines 287-324: "" when parsed_data is a list of 5 valid questions
validate_structure(parsed_data) ==
    IF parsed_data.t = "list" /\ Len(parsed_data.items) = NUM_QUESTIONS
    THEN validate_from(parsed_data.items, 1)
    ELSE "not_list_of_5"

\* lines 326-330: after a failed validation
mc_rejected(attempt, error) ==
    IF attempt < mc_max_retries - 1
    THEN Signal("next", None, <<backoff(attempt)>>, error)
    ELSE Signal("next", None, << >>, error)

\* a parse error that goes straight to the next attempt
mc_decode_error_no_wait(attempt) ==
    IF attempt < mc_max_retries - 1
    THEN Signal("next", None, << >>, "JSONDecodeError")
    ELSE Signal("break", None, << >>, "JSONDecodeError")

\* lines 274-284: except json.JSONDecodeError
mc_decode_error(attempt) ==
    IF attempt < mc_max_retries - 1
    THEN Signal("next", None, <<backoff(attempt)>>, "JSONDecodeError")
    ELSE Signal("break", None, << >>, "JSONDecodeError")

\* lines 257-330: the try block of one attempt
mc_try_body(response, attempt) ==
    IF response.raises \/ response.text_raises
    THEN Signal("raise", None, << >>, "exception")
    ELSE LET json_response_text == clean_json_text(response.text)
         IN IF ~json_loads_ok(json_response_text)
            THEN mc_decode_error(attempt)
            ELSE LET parsed_data == json_loads(json_response_text)
                     error == validate_structure(parsed_data)
                 IN IF error = ""
                    THEN Signal("return", <<parsed_data>>, << >>, "")
                    ELSE mc_rejected(attempt, error)

\* lines 332-345: except Exception
mc_except(attempt) ==
    IF attempt < mc_max_retries - 1
    THEN Signal("next", None, <<backoff(attempt)>>, "exception")
    ELSE Signal("return", None, << >>, "exception")

\* an attempt that does not return the questions its first call validated
mc_attempt_drops_first(response, attempt) ==
    LET body == mc_try_body(response, attempt)
    IN IF body.sig = "raise" THEN mc_except(attempt)
       ELSE IF body.sig = "return" /\ attempt = 0
            THEN Signal("next", None, << >>, "")
            ELSE body

\* lines 256-345: try ... except Exception of one attempt
mc_attempt(response, attempt) ==
    LET body == mc_try_body(response, attempt)
    IN IF body.sig = "raise" THEN mc_except(attempt) ELSE body

\* a loop that runs once more
mc_loop_one_more(attempt) == attempt <= mc_max_retries

\* for attempt in range(max_retries): whether the loop runs the body again
mc_loop_continues(attempt) == attempt < mc_max_retries

\* ---------------------------------------------------------------- state
VARIABLES
    \* st.session_state
    logged_in, username, is_admin, current_level, current_text,
    current_questions, user_answers, submitted_answers, score, feedback_given,
    \* the content of user_data.json: user name -> record
    user_data_file,
    \* whether writes to user_data.json may fail in this run of the system
    disk_faulty,
    \* a single call of a generator's checks on a sample response: the
    \* arguments of the call, and what one loop iteration did with them
    fn_in, fn_out,
    \* the latest logout of a student: the name, the level the session
    \* ended with, whether the write of it failed, and whether the session
    \* held a round
    last_logout,
    \* sessions that run the script at the same time on the same file,
    \* step by step (each: its user, its level, the copy of the file it has
    \* loaded, where its script is), and for every user the level the
    \* user's own session wrote last
    sessions, owner_level,
    \* where the running script is: "idle" (no script runs), "text" (inside
    \* generate_reading_text), "questions" (inside generate_mc_questions)
    pc,
    \* the loop variable of the request in progress
    attempt,
    \* new_text of the start handler, once generate_reading_text returned it
    new_text,
    \* st.rerun() was called: the script runs again before any new event
    rerun,
    \* observation of the latest script run: the widget event that started
    \* it, the requests it made, whether an exception ended it, and the
    \* level adaptation it performed
    event, gen, crashed, adapted,
    \* how many times the adaptation block ran for the content now loaded
    adapt_runs

auth_vars == <<logged_in, username, is_admin>>
round_vars == <<current_text, current_questions, user_answers,
                submitted_answers, score, feedback_given>>
ctl_vars == <<pc, attempt, new_text>>
env_vars == <<disk_faulty, fn_in, fn_out, sessions, owner_level>>
vars == <<logged_in, username, is_admin, current_level, current_text,
          current_questions, user_answers, submitted_answers, score,
          feedback_given, user_data_file, disk_faulty, fn_in, fn_out, pc,
          attempt, new_text, rerun, event, gen, crashed, adapted, adapt_runs,
          last_logout, sessions, owner_level>>

\* a record that makes every user an administrator
UserRecordOfAdmin(hashed, level, admin) ==
    [hashed_password_with_salt |-> hashed, level |-> level, is_admin |-> TRUE]

\* lines 49-55: the record of a user in user_data.json
UserRecord(hashed, level, admin) ==
    [hashed_password_with_salt |-> hashed, level |-> level, is_admin |-> admin]

\* lines 44-57: the file load_user_data creates when there is none
initial_data ==
    [u \in {ADMIN_USER} |-> UserRecord(hash_password(ADMIN_PASS, "5a17"), NoLevel, TRUE)]

\* data[key] = value on a dict
dict_set(data, key, value) ==
    [k \in DOMAIN data \cup {key} |-> IF k = key THEN value ELSE data[k]]

\* lines 81-96: the file after save_user_data(data); a failed write leaves
\* the file as it was (the temporary file is written first)
save_user_data(data, write_ok) == IF write_ok THEN data ELSE user_data_file

\* The outcomes a write to the file can have.
WriteOutcomes == IF disk_faulty THEN BOOLEAN ELSE {TRUE}

\* The kind of a request's last error: an exception, a response that is
\* not JSON, a JSON value that is not a list of 5, or an invalid question.
error_class(error) ==
    IF error \in {"", "exception", "JSONDecodeError", "not_list_of_5",
                  "no_parts", "short_or_refusal"}
    THEN error ELSE "invalid_question"

\* No request made in this script run.
GenNone ==
    [level |-> NoLevel, text_calls |-> 0, mc_calls |-> 0,
     text_sleeps |-> << >>, mc_sleeps |-> << >>, last_error |-> "",
     text_result |-> "none", mc_result |-> "none", mc_text |-> None]

NoEvent == [kind |-> "none"]

\* no other session runs the script
NoSessions == << >>

\* no generator check has been called on a sample
NoCall == [kind |-> "none", level |-> 0, pos |-> 0, sample |-> 0]

\* lines 377-388: default_session_state, and the store after the first load
InitSession ==
    /\ logged_in = FALSE
    /\ username = NoneStr
    /\ is_admin = FALSE
    /\ current_level = DEFAULT_LEVEL
    /\ current_text = None
    /\ current_questions = None
    /\ user_answers = << >>
    /\ submitted_answers = FALSE
    /\ score = 0
    /\ feedback_given = FALSE
    /\ user_data_file = initial_data
    /\ pc = "idle"
    /\ attempt = 0
    /\ new_text = None
    /\ rerun = FALSE
    /\ event = NoEvent
    /\ gen = GenNone
    /\ crashed = FALSE
    /\ adapted = None
    /\ adapt_runs = 0
    /\ last_logout = None

\* The application on a disk whose writes succeed.
Init ==
    /\ InitSession
    /\ disk_faulty = FALSE
    /\ fn_in = NoCall
    /\ fn_out = None
    /\ sessions = NoSessions
    /\ owner_level = NoSessions

\* A widget can be used: no script is running and none is about to.
CanInteract == pc = "idle" /\ ~rerun

\* What every script run that makes no request and adapts no level observes.
QuietRun == gen' = GenNone /\ crashed' = FALSE /\ adapted' = None

\* ------------------------------------------------------ login / register
\* lines 411-446: the login form
Login(raw_username, password) ==
    /\ CanInteract
    /\ ~logged_in
    /\ LET name == lower_strip(raw_username)
           user_data == user_data_file
           ok == /\ name # "" /\ password # ""
                 /\ name \in DOMAIN user_data
                 /\ verify_password(user_data[name].hashed_password_with_salt, password)
       IN /\ event' = [kind |-> "login", username |-> name, password |-> password,
                       resumed |-> last_logout]
          /\ IF ok
             THEN /\ logged_in' = TRUE
                  /\ username' = name
                  /\ is_admin' = user_data[name].is_admin
                  /\ current_level' = IF ~user_data[name].is_admin
                                      THEN user_data[name].level
                                      ELSE NoLevel
                  /\ current_text' = None
                  /\ current_questions' = None
                  /\ user_answers' = << >>
                  /\ submitted_answers' = FALSE
                  /\ score' = 0
                  /\ feedback_given' = FALSE
                  /\ adapt_runs' = 0
                  /\ rerun' = TRUE
                  /\ last_logout' = None
             ELSE UNCHANGED <<auth_vars, current_level, round_vars, adapt_runs, rerun,
                              last_logout>>
    /\ QuietRun
    /\ UNCHANGED <<user_data_file, env_vars, ctl_vars>>

\* the checks of the form without the one for a name already registered
register_error_found_unless_taken(user_data, new_username, new_password, confirm_password) ==
    \/ new_username = "" \/ new_password = "" \/ confirm_password = ""
    \/ new_password # confirm_password
    \/ ~email_format_ok(new_username)
    \/ PasswordLen(new_password) < MIN_PASSWORD_LEN

\* lines 456-476: the checks of the registration form
register_error_found(user_data, new_username, new_password, confirm_password) ==
    \/ new_username = "" \/ new_password = "" \/ confirm_password = ""
    \/ new_password # confirm_password
    \/ ~email_format_ok(new_username)
    \/ PasswordLen(new_password) < MIN_PASSWORD_LEN
    \/ new_username \in DOMAIN user_data

\* lines 456-488: the registration form
Register(raw_username, new_password, confirm_password, salt) ==
    /\ CanInteract
    /\ ~logged_in
    /\ LET new_username == lower_strip(raw_username)
           user_data == user_data_file
       IN /\ event' = [kind |-> "register", username |-> new_username,
                       password |-> new_password,
                       confirm |-> confirm_password]
          /\ IF ~register_error_found(user_data, new_username, new_password, confirm_password)
             THEN \E write_ok \in WriteOutcomes :
                     user_data_file' =
                         save_user_data(
                             dict_set(user_data, new_username,
                                      UserRecord(hash_password(new_password, salt),
                                                 DEFAULT_LEVEL, FALSE)),
                             write_ok)
             ELSE UNCHANGED user_data_file
    /\ QuietRun
    /\ UNCHANGED <<auth_vars, current_level, round_vars, adapt_runs, rerun,
                   env_vars, last_logout, ctl_vars>>

\* a save that never reaches the file
persist_level_nowhere(name, level, write_ok) == user_data_file

\* lines 762-763 and 503-504: load the file, set the user's level, save
persist_level(name, level, write_ok) ==
    LET data == user_data_file
    IN IF name \in DOMAIN data
       THEN save_user_data([data EXCEPT ![name].level = level], write_ok)
       ELSE user_data_file

\* a logout that leaves the round of the session where it is
delete_round_keys_but_content ==
    /\ UNCHANGED <<current_text, current_questions, user_answers>>
    /\ submitted_answers' = FALSE
    /\ score' = 0
    /\ feedback_given' = FALSE

\* lines 511-514 and 390-392: the keys of the round are deleted, and the
\* next run sets each to its default
delete_round_keys ==
    /\ current_text' = None
    /\ current_questions' = None
    /\ user_answers' = << >>
    /\ submitted_answers' = FALSE
    /\ score' = 0
    /\ feedback_given' = FALSE

\* lines 496-518: the logout button
Logout ==
    /\ CanInteract
    /\ logged_in
    /\ event' = [kind |-> "logout"]
    /\ IF ~is_admin /\ username # NoneStr
       THEN \E write_ok \in WriteOutcomes :
               /\ user_data_file' = persist_level(username, current_level, write_ok)
               /\ last_logout' = <<[username |-> username, level |-> current_level,
                                    save_failed |-> ~write_ok,
                                    round_left |-> current_text # None]>>
       ELSE /\ UNCHANGED user_data_file
            /\ last_logout' = None
    \* every key is deleted and the next run sets it to its default
    /\ logged_in' = FALSE
    /\ username' = NoneStr
    /\ is_admin' = FALSE
    /\ current_level' = DEFAULT_LEVEL
    /\ delete_round_keys
    /\ adapt_runs' = 0
    /\ rerun' = TRUE
    /\ QuietRun
    /\ UNCHANGED <<env_vars, ctl_vars>>

\* ---------------------------------------------------------- student view
\* a script that renders the student view for every user logged in
StudentViewForAll == logged_in

\* The student view is what the script renders.
StudentView == logged_in /\ ~is_admin

\* a start button that is rendered whatever is loaded
NoContentNeeded == TRUE

\* line 563: no text or no questions loaded
NoContent == current_text = None \/ current_questions = None

\* line 603: text and questions loaded
HasContent == current_text # None /\ current_questions # None

\* lines 566-570: the start/next button; the script enters
\* generate_reading_text(level_to_generate)
Start ==
    /\ CanInteract
    /\ StudentView
    /\ NoContent
    /\ event' = [kind |-> "start"]
    /\ gen' = [GenNone EXCEPT !.level = current_level]
    /\ crashed' = FALSE
    /\ adapted' = None
    /\ pc' = "text"
    /\ attempt' = 0
    /\ new_text' = None
    /\ UNCHANGED <<auth_vars, current_level, round_vars, adapt_runs, rerun,
                   user_data_file, env_vars, last_logout>>

\* a handler that keeps the text whose questions failed
GenerationFailedKeepsText ==
    /\ current_text' = new_text
    /\ current_questions' = None
    /\ pc' = "idle"
    /\ attempt' = 0
    /\ new_text' = None
    /\ crashed' = FALSE
    /\ UNCHANGED <<user_answers, submitted_answers, score, feedback_given,
                   adapt_runs, rerun>>

\* a handler that goes on to the questions request without a text
GenerationFailedGoesOn ==
    /\ current_text' = None
    /\ current_questions' = None
    /\ pc' = IF pc = "text" THEN "questions" ELSE "idle"
    /\ attempt' = 0
    /\ new_text' = None
    /\ crashed' = FALSE
    /\ UNCHANGED <<user_answers, submitted_answers, score, feedback_given,
                   adapt_runs, rerun>>

\* lines 586-596: the handler after a request returned None
GenerationFailed ==
    /\ current_text' = None
    /\ current_questions' = None
    /\ pc' = "idle"
    /\ attempt' = 0
    /\ new_text' = None
    /\ crashed' = FALSE
    /\ UNCHANGED <<user_answers, submitted_answers, score, feedback_given,
                   adapt_runs, rerun>>

\* An exception leaves the request: the script run ends there.
ScriptAborted ==
    /\ pc' = "idle"
    /\ attempt' = 0
    /\ new_text' = None
    /\ crashed' = TRUE
    /\ UNCHANGED <<round_vars, adapt_runs, rerun>>

\* a success branch that leaves the score of the round before
reset_round_state_but_score ==
    /\ user_answers' = << >>
    /\ submitted_answers' = FALSE
    /\ UNCHANGED score
    /\ feedback_given' = FALSE

\* lines 581-584: the new round starts without answers, score or flags
reset_round_state ==
    /\ user_answers' = << >>
    /\ submitted_answers' = FALSE
    /\ score' = 0
    /\ feedback_given' = FALSE

\* lines 166-210, 572-574: one attempt of generate_reading_text, and what the
\* handler does when the request returns
TextAttempt(response) ==
    /\ pc = "text"
    /\ LET s == text_attempt(response, attempt)
           g == [gen EXCEPT !.text_calls = @ + 1,
                            !.text_sleeps = @ \o s.sleeps,
                            !.last_error = s.error]
       IN CASE s.sig = "raise" ->
                 /\ gen' = g
                 /\ ScriptAborted
            [] s.sig = "return" /\ s.value # None ->
                 \* new_text is returned: generate_mc_questions(new_text)
                 /\ gen' = [g EXCEPT !.text_result = "ok", !.mc_text = s.value]
                 /\ pc' = "questions"
                 /\ attempt' = 0
                 /\ new_text' = s.value
                 /\ crashed' = FALSE
                 /\ UNCHANGED <<round_vars, adapt_runs, rerun>>
            [] s.sig = "next" /\ text_loop_continues(attempt + 1) ->
                 /\ gen' = g
                 /\ pc' = "text"
                 /\ attempt' = attempt + 1
                 /\ UNCHANGED <<new_text, crashed, round_vars, adapt_runs, rerun>>
            [] OTHER ->
                 \* return None, in the loop or after it (line 210)
                 /\ gen' = [g EXCEPT !.text_result = "fail"]
                 /\ GenerationFailed
    /\ UNCHANGED <<auth_vars, current_level, user_data_file, env_vars, last_logout,
                   event, adapted>>

\* lines 255-351, 576-591: one attempt of generate_mc_questions, and what the
\* handler does when the request returns
McAttempt(response) ==
    /\ pc = "questions"
    /\ LET s == mc_attempt(response, attempt)
           g == [gen EXCEPT !.mc_calls = @ + 1,
                            !.mc_sleeps = @ \o s.sleeps,
                            !.last_error = error_class(s.error)]
       IN CASE s.sig = "raise" ->
                 /\ gen' = g
                 /\ ScriptAborted
            [] s.sig = "return" /\ s.value # None ->
                 \* lines 579-585
                 /\ gen' = [g EXCEPT !.mc_result = "ok"]
                 /\ current_text' = new_text
                 /\ current_questions' = s.value
                 /\ reset_round_state
                 /\ adapt_runs' = 0
                 /\ rerun' = TRUE
                 /\ pc' = "idle"
                 /\ attempt' = 0
                 /\ new_text' = None
                 /\ crashed' = FALSE
            [] s.sig = "next" /\ mc_loop_continues(attempt + 1) ->
                 /\ gen' = g
                 /\ pc' = "questions"
                 /\ attempt' = attempt + 1
                 /\ UNCHANGED <<new_text, crashed, round_vars, adapt_runs, rerun>>
            [] OTHER ->
                 \* return None: in the handler, after a break, or after the loop
                 /\ gen' = [g EXCEPT !.mc_result = "fail"]
                 /\ GenerationFailed
    /\ UNCHANGED <<auth_vars, current_level, user_data_file, env_vars, last_logout,
                   event, adapted>>

\* What the form can hold when it is sent: every question answered with one
\* of Choices, all but one question answered, or none answered.
QuestionIndexes == 0..(NUM_QUESTIONS - 1)
FormSamples ==
    [QuestionIndexes -> Choices]
    \cup {[i \in QuestionIndexes |-> IF i = j THEN NoneStr ELSE "A"] : j \in QuestionIndexes}
    \cup {[i \in QuestionIndexes |-> NoneStr]}

\* any instead of all
answered_any(temp_answers) ==
    \E i \in DOMAIN temp_answers : temp_answers[i] # NoneStr

\* line 667: all(ans is not None for ans in temp_answers.values())
answered_all(temp_answers) ==
    \A i \in DOMAIN temp_answers : temp_answers[i] # NoneStr

\* the answers of a form that is submitted again after the round was
\* submitted (the button is disabled then, so only a click that was already
\* on its way gets here): one sample, every question answered "A"
ResubmitSamples == {[i \in QuestionIndexes |-> "A"]}

\* a submit handler without the guard on the round already submitted
submit_accepted_always(submit_button, submitted) == submit_button

\* line 664: if submit_button and not st.session_state.submitted_answers
submit_accepted(submit_button, submitted) == submit_button /\ ~submitted

\* user_answers.get(i)
answers_get(answers, i) == IF i \in DOMAIN answers THEN answers[i] ELSE NoneStr

\* correct_count that leaves out the last question
RECURSIVE correct_count_short(_, _, _)
correct_count_short(questions_data, answers, i) ==
    IF i + 1 >= Len(questions_data) THEN 0
    ELSE (IF answers_get(answers, i) = get_item(questions_data[i + 1], "correct_answer").s
          THEN 1 ELSE 0)
         + correct_count_short(questions_data, answers, i + 1)

\* correct_count that starts from the stored score instead of 0
RECURSIVE correct_count_from_score(_, _, _)
correct_count_from_score(questions_data, answers, i) ==
    IF i >= Len(questions_data) THEN score
    ELSE (IF answers_get(answers, i) = get_item(questions_data[i + 1], "correct_answer").s
          THEN 1 ELSE 0)
         + correct_count_from_score(questions_data, answers, i + 1)

\* lines 683-696: correct_count over enumerate(questions_data), from index i
RECURSIVE correct_count(_, _, _)
correct_count(questions_data, answers, i) ==
    IF i >= Len(questions_data) THEN 0
    ELSE (IF answers_get(answers, i) = get_item(questions_data[i + 1], "correct_answer").s
          THEN 1 ELSE 0)
         + correct_count(questions_data, answers, i + 1)

\* line 733: (score / num_questions) * 100; exact for the scores 0..5 of 5
score_percentage(the_score, num_questions) == (the_score * 100) \div num_questions

\* adapt_level without the bounds
adapt_level_unclamped(level, percentage) ==
    IF percentage >= 80 THEN [level |-> level + 1, level_changed |-> TRUE]
    ELSE IF percentage <= 40 THEN [level |-> level - 1, level_changed |-> TRUE]
    ELSE [level |-> level, level_changed |-> FALSE]

\* adapt_level with the thresholds lo (lower at or below) and hi (raise at
\* or above)
adapt_level_with(level, percentage, lo, hi) ==
    IF percentage >= hi
    THEN IF level < MAX_LEVEL
         THEN [level |-> level + 1, level_changed |-> TRUE]
         ELSE [level |-> level, level_changed |-> FALSE]
    ELSE IF percentage <= lo
         THEN IF level > MIN_LEVEL
              THEN [level |-> level - 1, level_changed |-> TRUE]
              ELSE [level |-> level, level_changed |-> FALSE]
         ELSE [level |-> level, level_changed |-> FALSE]

\* raise only above 80%
adapt_level_raise_above(level, percentage) == adapt_level_with(level, percentage, 40, 81)

\* lower only below 40%
adapt_level_lower_below(level, percentage) == adapt_level_with(level, percentage, 39, 80)

\* lower at or below 60%
adapt_level_lower_at_60(level, percentage) == adapt_level_with(level, percentage, 60, 80)

\* lines 735-755: the new level and level_changed
adapt_level(level, percentage) ==
    IF percentage >= 80
    THEN IF level < MAX_LEVEL
         THEN [level |-> level + 1, level_changed |-> TRUE]
         ELSE [level |-> level, level_changed |-> FALSE]
    ELSE IF percentage <= 40
         THEN IF level > MIN_LEVEL
              THEN [level |-> level - 1, level_changed |-> TRUE]
              ELSE [level |-> level, level_changed |-> FALSE]
         ELSE [level |-> level, level_changed |-> FALSE]

\* the adaptation block without its guard
adaptation_always_due(given) == TRUE

\* line 726: if not st.session_state.feedback_given
adaptation_due(given) == ~given

\* a save that stops at the failed write: the flag is set only after a
\* write that succeeded
feedback_after_failed_save(write_ok) == write_ok

\* lines 81-96 and 764-771: save_user_data catches every exception of the
\* write, so line 771 sets feedback_given whatever the write did
feedback_after_save(write_ok) == TRUE

\* lines 679-771: the results block of a script run that shows a submitted
\* round: the score is computed, and the level adapted if not yet done
ResultsBlock ==
    LET questions_data == current_questions[1].items
        correct == correct_count(questions_data, user_answers, 0)
        num_questions == Len(questions_data)
        a == adapt_level(current_level, score_percentage(correct, num_questions))
    IN /\ score' = correct
       /\ IF adaptation_due(feedback_given)
          THEN /\ current_level' = a.level
               /\ \E write_ok \in (IF a.level_changed THEN WriteOutcomes ELSE {TRUE}) :
                     /\ user_data_file' =
                            IF a.level_changed
                            THEN persist_level(username, a.level, write_ok)
                            ELSE user_data_file
                     /\ feedback_given' = feedback_after_save(write_ok)
                     /\ adapted' = <<[previous_level |-> current_level,
                                      score |-> correct,
                                      new_level |-> a.level,
                                      level_changed |-> a.level_changed,
                                      save_failed |-> ~write_ok]>>
               /\ adapt_runs' = adapt_runs + 1
          ELSE /\ adapted' = None
               /\ UNCHANGED <<current_level, user_data_file, feedback_given, adapt_runs>>

\* lines 658-722: a script run with the form's submit button pressed. A
\* submit of a round not yet submitted stores the answers if all are given
\* (lines 664-676); on a round already submitted the handler is skipped and
\* the run goes on to show the results (line 679)
Submit(temp_answers) ==
    /\ CanInteract
    /\ StudentView
    /\ HasContent
    /\ submitted_answers => temp_answers \in ResubmitSamples
    /\ event' = [kind |-> "submit", temp_answers |-> temp_answers]
    /\ gen' = GenNone
    /\ crashed' = FALSE
    /\ IF submit_accepted(TRUE, submitted_answers)
       THEN /\ IF ~answered_all(temp_answers)
               THEN UNCHANGED <<user_answers, submitted_answers, feedback_given, rerun>>
               ELSE /\ user_answers' = temp_answers
                    /\ submitted_answers' = TRUE
                    /\ feedback_given' = FALSE
                    /\ rerun' = TRUE
            /\ adapted' = None
            /\ UNCHANGED <<current_level, score, adapt_runs, user_data_file>>
       ELSE /\ ResultsBlock
            /\ UNCHANGED <<user_answers, submitted_answers, rerun>>
    /\ UNCHANGED <<auth_vars, current_text, current_questions, env_vars,
                   last_logout, ctl_vars>>

\* A script run that no widget started: after st.rerun(), or a re-render.
Rerender ==
    /\ pc = "idle"
    /\ event' = NoEvent
    /\ rerun' = FALSE
    /\ gen' = GenNone
    /\ crashed' = FALSE
    /\ IF StudentView /\ HasContent /\ submitted_answers
       THEN ResultsBlock
       ELSE /\ adapted' = None
            /\ UNCHANGED <<current_level, score, feedback_given, user_data_file,
                           adapt_runs>>
    /\ UNCHANGED <<auth_vars, current_text, current_questions, user_answers,
                   submitted_answers, env_vars, last_logout, ctl_vars>>

\* a next handler that leaves the questions in the session
clear_round_but_questions ==
    /\ current_text' = None
    /\ UNCHANGED current_questions
    /\ user_answers' = << >>
    /\ submitted_answers' = FALSE

\* a next handler that leaves the round marked as submitted
clear_round_but_submitted ==
    /\ current_text' = None
    /\ current_questions' = None
    /\ user_answers' = << >>
    /\ UNCHANGED submitted_answers

\* lines 778-781: the four assignments of the next handler
clear_round ==
    /\ current_text' = None
    /\ current_questions' = None
    /\ user_answers' = << >>
    /\ submitted_answers' = FALSE

\* a next handler that leaves out the line that empties the answers
NextTextKeepsAnswers ==
    /\ CanInteract
    /\ StudentView
    /\ HasContent
    /\ submitted_answers
    /\ event' = [kind |-> "next"]
    /\ ResultsBlock
    /\ current_text' = None
    /\ current_questions' = None
    /\ submitted_answers' = FALSE
    /\ rerun' = TRUE
    /\ gen' = GenNone
    /\ crashed' = FALSE
    /\ UNCHANGED <<auth_vars, user_answers, env_vars, last_logout, ctl_vars>>

\* lines 776-784: the next button, in a script run that first shows the
\* results of the submitted round
NextText ==
    /\ CanInteract
    /\ StudentView
    /\ HasContent
    /\ submitted_answers
    /\ event' = [kind |-> "next"]
    /\ ResultsBlock
    /\ clear_round
    /\ rerun' = TRUE
    /\ gen' = GenNone
    /\ crashed' = FALSE
    /\ UNCHANGED <<auth_vars, env_vars, last_logout, ctl_vars>>

\* ------------------------------------------------------------------ system
Next ==
    \/ \E u \in RawUsernames, p \in Passwords : Login(u, p)
    \/ \E u \in RawUsernames, p \in NewPasswords, c \in NewPasswords, salt \in Salts :
          Register(u, p, c, salt)
    \/ Logout
    \/ Start
    \/ \E r \in 1..Len(TextResponses) : TextAttempt(TextResponses[r])
    \/ \E r \in 1..Len(McResponses) : McAttempt(McResponses[r])
    \/ \E t \in FormSamples : Submit(t)
    \/ Rerender
    \/ NextText

Spec == Init /\ [][Next]_vars

\* The application on a disk where any write of user_data.json may fail
\* (lines 92-95: save_user_data reports the error and returns).
InitFaults ==
    /\ InitSession
    /\ disk_faulty = TRUE
    /\ fn_in = NoCall
    /\ fn_out = None
    /\ sessions = NoSessions
    /\ owner_level = NoSessions

\* On the faulty disk the generation capability gives one of two responses
\* to a request: one that is rejected and one that is accepted (positions in
\* TextResponses and in McResponses).
FaultTextSamples == {2, 7}
FaultMcSamples == {3, 18}

NextFaults ==
    \/ \E u \in RawUsernames, p \in Passwords : Login(u, p)
    \/ \E u \in RawUsernames, p \in NewPasswords, c \in NewPasswords, salt \in Salts :
          Register(u, p, c, salt)
    \/ Logout
    \/ Start
    \/ \E r \in FaultTextSamples : TextAttempt(TextResponses[r])
    \/ \E r \in FaultMcSamples : McAttempt(McResponses[r])
    \/ \E t \in FormSamples : Submit(t)
    \/ Rerender
    \/ NextText

SpecFaults == InitFaults /\ [][NextFaults]_vars

\* ------------------------------------- one call of a generator's checks
\* Elements a parsed questions response can hold: valid ones (with another
\* key, with an extra field, with the options in another order) and one
\* for every check of lines 292-314.
QuestionSamples ==
    << Q("q", "A"),
       Q("q", "D"),
       JDict(<<"question", "options", "correct_answer", "explanation">>,
             <<JStr("q"), GoodOptions, JStr("C"), JStr("porque si")>>),
       Question("q", JDict(<<"D", "C", "B", "A">>,
                           <<JStr("cuatro"), JStr("tres"), JStr("dos"), JStr("uno")>>), "B"),
       JStr("q"),
       JList(<<JStr("q"), GoodOptions, JStr("A")>>),
       JDict(<<"question", "options">>, <<JStr("q"), GoodOptions>>),
       JDict(<<"question", "correct_answer">>, <<JStr("q"), JStr("A")>>),
       JDict(<<"options", "correct_answer">>, <<GoodOptions, JStr("A")>>),
       Q("", "A"),
       JDict(<<"question", "options", "correct_answer">>,
             <<JNum(7), GoodOptions, JStr("A")>>),
       Q("q", "E"),
       Q("q", "a"),
       Q("q", ""),
       JDict(<<"question", "options", "correct_answer">>,
             <<JStr("q"), GoodOptions, JNum(1)>>),
       Question("q", JList(<<JStr("uno"), JStr("dos"), JStr("tres"), JStr("cuatro")>>), "A"),
       Question("q", JStr("A"), "A"),
       Question("q", JDict(<<"A", "B", "C">>, <<JStr("uno"), JStr("dos"), JStr("tres")>>), "A"),
       Question("q", JDict(<<"A", "B", "C", "D", "E">>,
                           <<JStr("uno"), JStr("dos"), JStr("tres"), JStr("cuatro"), JStr("cinco")>>), "A"),
       Question("q", JDict(<<"A", "B", "C", "E">>,
                           <<JStr("uno"), JStr("dos"), JStr("tres"), JStr("cuatro")>>), "A"),
       Question("q", Options("uno", "", "tres", "cuatro"), "A"),
       Question("q", Options("uno", "dos", "tres", ""), "A"),
       Question("q", JDict(ABCD, <<JStr("uno"), JNum(2), JStr("tres"), JStr("cuatro")>>), "A") >>

\* GoodList with its element at pos replaced
WithAt(pos, q) ==
    JList([i \in 1..Len(GoodList.items) |-> IF i = pos THEN q ELSE GoodList.items[i]])

\* Parsed responses that are not a list of five elements, and one that is.
ShapeSamples ==
    << JStr("cinco preguntas"),
       JNum(5),
       JDict(<<"questions">>, <<GoodList>>),
       JList(<< >>),
       JList(SubSeq(GoodList.items, 1, 4)),
       JList(GoodList.items \o <<Q("q6", "C")>>),
       GoodList >>

\* The parsed response of a questions call: a list of five with one sample
\* element at pos, or (pos = 0) a sample shape.
ParsedSample(call) ==
    IF call.pos = 0 THEN ShapeSamples[call.sample]
    ELSE WithAt(call.pos, QuestionSamples[call.sample])

\* Texts of a text response, by length and word count: around the 40
\* characters of line 174 and around four fifths of the fewest words of
\* every range of lines 133-152, and two refusals of many words.
TextSamples ==
    << TextOf(FALSE, 40, 7, ""), TextOf(TRUE, 41, 8, ""),
       TextOf(FALSE, 240, 39, ""), TextOf(FALSE, 240, 40, ""),
       TextOf(TRUE, 260, 45, ""),
       TextOf(FALSE, 380, 63, ""), TextOf(FALSE, 380, 64, ""),
       TextOf(FALSE, 570, 95, ""), TextOf(FALSE, 570, 96, ""),
       TextOf(TRUE, 860, 143, ""), TextOf(FALSE, 860, 144, ""),
       TextOf(FALSE, 1200, 199, ""), TextOf(FALSE, 1200, 200, ""),
       TextOf(FALSE, 2100, 350, ""),
       TextOf(FALSE, 900, 150, "no puedo generar"),
       TextOf(FALSE, 2100, 350, "contenido inapropiado") >>

\* The calls: generate_mc_questions on every parsed sample, and
\* generate_reading_text at every level on every text sample.
Calls ==
    {[kind |-> "questions", level |-> 0, pos |-> j, sample |-> k] :
        j \in 1..NUM_QUESTIONS, k \in 1..Len(QuestionSamples)}
    \cup {[kind |-> "questions", level |-> 0, pos |-> 0, sample |-> k] :
             k \in 1..Len(ShapeSamples)}
    \cup {[kind |-> "text", level |-> l, pos |-> 0, sample |-> k] :
             l \in MIN_LEVEL..MAX_LEVEL, k \in 1..Len(TextSamples)}

\* lines 256-345: the first attempt of generate_mc_questions on a response
\* whose text is the JSON document of the parsed sample
CheckQuestions ==
    /\ fn_in.kind = "questions"
    /\ fn_out = None
    /\ fn_out' = <<mc_attempt(McResponse(FALSE, FALSE, <<Doc(ParsedSample(fn_in))>>), 0)>>
    /\ UNCHANGED <<auth_vars, current_level, round_vars, user_data_file, disk_faulty,
                   fn_in, ctl_vars, rerun, event, gen, crashed, adapted, adapt_runs,
                   last_logout, sessions, owner_level>>

\* lines 130-209: the first attempt of generate_reading_text(level) on a
\* response that has parts and the sample text; the level chooses the
\* words of the prompt (lines 133-160) and nothing else
CheckText ==
    /\ fn_in.kind = "text"
    /\ fn_out = None
    /\ fn_out' = <<text_attempt([raises |-> FALSE, parts |-> TRUE,
                                 text |-> TextSamples[fn_in.sample]], 0)>>
    /\ UNCHANGED <<auth_vars, current_level, round_vars, user_data_file, disk_faulty,
                   fn_in, ctl_vars, rerun, event, gen, crashed, adapted, adapt_runs,
                   last_logout, sessions, owner_level>>

InitChecks ==
    /\ InitSession
    /\ disk_faulty = FALSE
    /\ fn_in \in Calls
    /\ fn_out = None
    /\ sessions = NoSessions
    /\ owner_level = NoSessions

NextChecks == CheckQuestions \/ CheckText

SpecChecks == InitChecks /\ [][NextChecks]_vars

\* ---------------------------------------------------------- two sessions
\* Two browser sessions run the script on the same user_data.json. Every
\* script run of a session is a sequence of steps on the file: the load of
\* line 395, then what the handler of the run loads and saves. Steps of the
\* two sessions interleave; a step is one load_user_data or one
\* save_user_data (the write is one os.replace, line 87).
SessionIds == {1, 2}

\* the user at each session, and the password the user types
SessionUser == <<"ana@ufm.edu", "eva@ufm.edu">>
SessionPassword == "secret1"

\* the rounds a session grades
MaxGrades == 2

\* the percentages of the graded rounds
GradeSamples == {0, 60, 100}

\* the variables of the single session, which no step of the two sessions
\* touches
app_vars == <<auth_vars, current_level, round_vars, ctl_vars, rerun, event, gen,
              crashed, adapted, adapt_runs, last_logout, disk_faulty, fn_in, fn_out>>

\* lines 377-388: the state of a session before its first run
InitSessions ==
    /\ InitSession
    /\ disk_faulty = FALSE
    /\ fn_in = NoCall
    /\ fn_out = None
    /\ sessions = [s \in SessionIds |->
                      [logged_in |-> FALSE, current_level |-> DEFAULT_LEVEL,
                       user_data |-> None, at |-> "idle", grades |-> 0]]
    /\ owner_level = [u \in {SessionUser[s] : s \in SessionIds} |-> NoLevel]

\* the end of a script run: the copy of the file is dropped
run_ends(session) == [session EXCEPT !.user_data = None, !.at = "idle"]

\* line 395: a script run starts and loads the file
ScriptStarts(s) ==
    /\ sessions[s].at = "idle"
    /\ sessions' = [sessions EXCEPT ![s].user_data = <<user_data_file>>, ![s].at = "run"]
    /\ UNCHANGED <<user_data_file, owner_level, app_vars>>

\* lines 456-488: the run handles the registration form; the record is added
\* to the copy loaded at line 395 and the copy is saved
SessionRegisters(s) ==
    /\ sessions[s].at = "run"
    /\ ~sessions[s].logged_in
    /\ LET new_username == SessionUser[s]
           user_data == sessions[s].user_data[1]
       IN IF ~register_error_found(user_data, new_username, SessionPassword,
                                   SessionPassword)
          THEN /\ user_data_file' =
                      save_user_data(
                          dict_set(user_data, new_username,
                                   UserRecord(hash_password(SessionPassword, "5a17"),
                                              DEFAULT_LEVEL, FALSE)),
                          TRUE)
               /\ owner_level' = [owner_level EXCEPT ![new_username] = DEFAULT_LEVEL]
          ELSE UNCHANGED <<user_data_file, owner_level>>
    /\ sessions' = [sessions EXCEPT ![s] = run_ends(@)]
    /\ UNCHANGED app_vars

\* lines 411-446: the run handles the login form, from the copy loaded at
\* line 395
SessionLogsIn(s) ==
    /\ sessions[s].at = "run"
    /\ ~sessions[s].logged_in
    /\ LET name == SessionUser[s]
           user_data == sessions[s].user_data[1]
           ok == /\ name \in DOMAIN user_data
                 /\ verify_password(user_data[name].hashed_password_with_salt,
                                    SessionPassword)
       IN sessions' =
              [sessions EXCEPT ![s] =
                  IF ok
                  THEN run_ends([@ EXCEPT !.logged_in = TRUE,
                                          !.current_level = user_data[name].level])
                  ELSE run_ends(@)]
    /\ UNCHANGED <<user_data_file, owner_level, app_vars>>

\* lines 726-760: the run grades a round; the level is adapted and, if it
\* changed, the file is loaded again (user_data_update)
GradeLoads(s, percentage) ==
    /\ sessions[s].at = "run"
    /\ sessions[s].logged_in
    /\ sessions[s].grades < MaxGrades
    /\ LET a == adapt_level(sessions[s].current_level, percentage)
       IN sessions' =
              [sessions EXCEPT ![s] =
                  IF a.level_changed
                  THEN [@ EXCEPT !.current_level = a.level,
                                 !.grades = @ + 1,
                                 !.user_data = <<user_data_file>>,
                                 !.at = "grade_save"]
                  ELSE run_ends([@ EXCEPT !.grades = @ + 1])]
    /\ UNCHANGED <<user_data_file, owner_level, app_vars>>

\* lines 761-763 and 502-504: the level is set in the copy loaded last, and
\* the copy is saved, if the user is in it
level_saved(s) ==
    LET name == SessionUser[s]
        data == sessions[s].user_data[1]
    IN IF name \in DOMAIN data
       THEN /\ user_data_file' =
                   save_user_data([data EXCEPT ![name].level = sessions[s].current_level],
                                  TRUE)
            /\ owner_level' = [owner_level EXCEPT ![name] = sessions[s].current_level]
       ELSE UNCHANGED <<user_data_file, owner_level>>

\* lines 761-771: the new level is saved and the run ends
GradeSaves(s) ==
    /\ sessions[s].at = "grade_save"
    /\ level_saved(s)
    /\ sessions' = [sessions EXCEPT ![s] = run_ends(@)]
    /\ UNCHANGED app_vars

\* lines 496-501: the run handles the logout button and loads the file
\* (user_data_logout)
LogoutLoads(s) ==
    /\ sessions[s].at = "run"
    /\ sessions[s].logged_in
    /\ sessions' = [sessions EXCEPT ![s].user_data = <<user_data_file>>,
                                    ![s].at = "logout_save"]
    /\ UNCHANGED <<user_data_file, owner_level, app_vars>>

\* lines 502-518: the level is saved and the state of the session deleted
LogoutSaves(s) ==
    /\ sessions[s].at = "logout_save"
    /\ level_saved(s)
    /\ sessions' = [sessions EXCEPT ![s] =
                       run_ends([@ EXCEPT !.logged_in = FALSE,
                                          !.current_level = DEFAULT_LEVEL])]
    /\ UNCHANGED app_vars

\* a run that handles no form and no button
RunEnds(s) ==
    /\ sessions[s].at = "run"
    /\ sessions' = [sessions EXCEPT ![s] = run_ends(@)]
    /\ UNCHANGED <<user_data_file, owner_level, app_vars>>

NextSessions ==
    \E s \in SessionIds :
        \/ ScriptStarts(s)
        \/ SessionRegisters(s)
        \/ SessionLogsIn(s)
        \/ \E percentage \in GradeSamples : GradeLoads(s, percentage)
        \/ GradeSaves(s)
        \/ LogoutLoads(s)
        \/ LogoutSaves(s)
        \/ RunEnds(s)

SpecSessions == InitSessions /\ [][NextSessions]_vars

\* ------------------------------------------------------------ properties
Min(a, b) == IF a < b THEN a ELSE b
Max(a, b) == IF a > b THEN a ELSE b

\* A submitted round is on screen.
RoundSubmitted == StudentView /\ HasContent /\ submitted_answers

\* The correct key of question i (0-based) of the loaded question set.
CorrectKey(i) == get_item(current_questions[1].items[i + 1], "correct_answer").s

\* C1: the level adaptation of a round and its persistence happen once: the
\* adaptation block runs at most once for the loaded content, and once a
\* submitted round has been graded no further script run of the session
\* changes the level, the stored data, or adapts again.
C1_AdaptedOncePerRound ==
    /\ [](adapt_runs <= 1)
    /\ [](RoundSubmitted /\ feedback_given => adapt_runs = 1)
    /\ [][(RoundSubmitted /\ feedback_given /\ logged_in')
            => /\ current_level' = current_level
               /\ user_data_file' = user_data_file
               /\ adapted' = None
               /\ adapt_runs' = adapt_runs]_vars

\* a graded round (5 of 5 at the default level) re-rendered after its grading
C1_Witness ==
    /\ RoundSubmitted /\ feedback_given
    /\ event.kind = "none" /\ adapted = None
    /\ adapt_runs = 1 /\ score = 5
    /\ current_level = DEFAULT_LEVEL + 1

\* C2: in a logged-in student session current_level is in
\* MIN_LEVEL..MAX_LEVEL, and so is the level stored for every student.
C2_LevelInRange ==
    /\ StudentView => current_level \in MIN_LEVEL..MAX_LEVEL
    /\ \A u \in DOMAIN user_data_file :
          ~user_data_file[u].is_admin => user_data_file[u].level \in MIN_LEVEL..MAX_LEVEL

\* a round graded 5 of 5 at MAX_LEVEL
C2_Witness ==
    /\ StudentView /\ adapted # None
    /\ adapted[1].previous_level = MAX_LEVEL /\ adapted[1].score = 5
    /\ current_level = MAX_LEVEL

\* C3: a round graded with score 4 or 5 at level L leaves the level at
\* min(L + 1, MAX_LEVEL).
C3_RaiseAt80 ==
    (adapted # None /\ adapted[1].score \in {4, 5})
        => /\ adapted[1].new_level = Min(adapted[1].previous_level + 1, MAX_LEVEL)
           /\ current_level = adapted[1].new_level
           /\ score = adapted[1].score

\* 4 of 5 at level 5 gives level 6
C3_Witness ==
    /\ adapted # None /\ adapted[1].score = 4
    /\ adapted[1].previous_level = 5 /\ current_level = 6

\* C4: a round graded with score 0, 1 or 2 at level L leaves the level at
\* max(L - 1, MIN_LEVEL).
C4_LowerAt40 ==
    (adapted # None /\ adapted[1].score \in {0, 1, 2})
        => /\ adapted[1].new_level = Max(adapted[1].previous_level - 1, MIN_LEVEL)
           /\ current_level = adapted[1].new_level
           /\ score = adapted[1].score

\* 2 of 5 at level 2 gives level 1
C4_Witness ==
    /\ adapted # None /\ adapted[1].score = 2
    /\ adapted[1].previous_level = MIN_LEVEL + 1 /\ current_level = MIN_LEVEL

\* C5: a round graded with score 3 leaves the level as it was.
C5_HoldAt60 ==
    (adapted # None /\ adapted[1].score = 3)
        => /\ adapted[1].new_level = adapted[1].previous_level
           /\ current_level = adapted[1].previous_level
           /\ score = 3

\* 3 of 5 at level 4
C5_Witness ==
    /\ adapted # None /\ adapted[1].score = 3
    /\ adapted[1].previous_level = DEFAULT_LEVEL + 1
    /\ current_level = DEFAULT_LEVEL + 1

\* Every question of a sent form has an answer.
AllAnswered(temp_answers) ==
    \A i \in 0..4 : i \in DOMAIN temp_answers /\ temp_answers[i] # NoneStr

\* the submit of the latest run was made on a round not yet submitted (an
\* accepted submit reruns; a submit on a submitted round does not)
SubmitOnReady == event.kind = "submit" /\ (submitted_answers => rerun)

\* C6: after a submit on a round not yet submitted, the round is submitted
\* exactly when every question 0..4 had an answer; otherwise the round is as
\* it was loaded: not submitted, no answers stored, score 0, nothing graded.
C6_SubmitNeedsAllAnswers ==
    SubmitOnReady
        => /\ submitted_answers <=> AllAnswered(event.temp_answers)
           /\ AllAnswered(event.temp_answers) => user_answers = event.temp_answers
           /\ ~AllAnswered(event.temp_answers)
                 => /\ HasContent /\ user_answers = << >> /\ score = 0
                    /\ ~feedback_given /\ adapted = None /\ adapt_runs = 0
                    /\ ~rerun

\* a form sent with 4 of 5 answers
C6_Witness ==
    /\ event.kind = "submit"
    /\ Cardinality({i \in 0..4 : event.temp_answers[i] # NoneStr}) = 4
    /\ ~submitted_answers /\ HasContent

\* C7: the score of a graded round is the number of questions 0..4 whose
\* stored answer is the question's correct key, a number in 0..5.
C7_ScoreIsCorrectCount ==
    (RoundSubmitted /\ feedback_given)
        => /\ score = Cardinality({i \in 0..4 : user_answers[i] = CorrectKey(i)})
           /\ score \in 0..5

\* a graded round with 3 correct answers, the last one among them
C7_Witness ==
    /\ RoundSubmitted /\ feedback_given /\ score = 3
    /\ user_answers[4] = CorrectKey(4) /\ user_answers[0] # CorrectKey(0)

\* C8: neither request makes more than 3 calls, and a request that returns
\* the failure value has made exactly 3.
C8_ExactlyMaxRetries ==
    /\ gen.text_calls <= 3 /\ gen.mc_calls <= 3
    /\ gen.text_result = "fail" => gen.text_calls = 3
    /\ gen.mc_result = "fail" => gen.mc_calls = 3

\* a questions request that failed on an invalid question
C8_Witness ==
    /\ gen.mc_result = "fail" /\ gen.mc_calls = 3
    /\ gen.last_error = "invalid_question"

\* C9: no script run ends in an exception raised by a request, and a start
\* that has ended has a failed text request, or a text and a failed or
\* successful questions request.
C9_NoExceptionEscapes ==
    /\ ~crashed
    /\ (event.kind = "start" /\ pc = "idle")
          => \/ gen.text_result = "fail" /\ gen.mc_result = "none"
             \/ gen.text_result = "ok" /\ gen.mc_result \in {"ok", "fail"}

\* a text request that failed with an exception in its last attempt
C9_Witness ==
    /\ pc = "idle" /\ event.kind = "start"
    /\ gen.text_result = "fail" /\ gen.last_error = "exception"

\* A start has just ended in a failure.
StartFailed ==
    /\ pc = "idle" /\ event.kind = "start"
    /\ gen.text_result = "fail" \/ gen.mc_result = "fail"

\* C10: after a start that ended in a failure there is no text and there
\* are no questions, no script run is pending and neither request made more
\* calls than its own retry loop allows (nothing is retried by the handler),
\* and the start button can be pressed again.
C10_FailureBackToIdle ==
    StartFailed
        => /\ current_text = None /\ current_questions = None
           /\ ~submitted_answers /\ ~rerun
           /\ gen.text_calls <= text_max_retries /\ gen.mc_calls <= mc_max_retries
           /\ ENABLED Start

\* a start whose text was accepted and whose questions request failed
C10_Witness ==
    /\ StartFailed
    /\ gen.text_result = "ok" /\ gen.mc_result = "fail"
    /\ current_text = None /\ current_questions = None

\* C11: content is loaded only by the step that ends a start whose text
\* request and whose questions request both succeeded, and it is the text
\* of that start with its questions; a step in which the questions request
\* failed stores nothing
C11_ContentOnlyFromFullSuccess ==
    /\ [][(/\ \/ current_text' # current_text
              \/ current_questions' # current_questions
           /\ \/ current_text' # None
              \/ current_questions' # None)
          => /\ pc = "questions"
             /\ gen'.text_result = "ok" /\ gen'.mc_result = "ok"
             /\ current_text' = new_text /\ current_text' # None
             /\ current_text' = gen'.mc_text
             /\ current_questions' # None
             /\ Len(current_questions'[1].items) = NUM_QUESTIONS]_vars
    /\ [](gen.mc_result = "fail" => current_text = None /\ current_questions = None)
    /\ []((current_text = None) <=> (current_questions = None))

\* content was loaded by a start whose text request needed a second attempt
\* and whose questions request needed a third
C11_Witness ==
    /\ event.kind = "start"
    /\ gen.text_result = "ok" /\ gen.mc_result = "ok"
    /\ gen.text_calls = 2 /\ gen.mc_calls = 3
    /\ current_text # None /\ current_questions # None
    /\ current_text = gen.mc_text

\* C12 as stated: the next handler empties the passage, the question set,
\* the answers and the score (back to 0), and leaves current_level alone
C12_NextClearsScore ==
    [][event'.kind = "next"
       => /\ current_text' = None /\ current_questions' = None
          /\ user_answers' = << >> /\ ~submitted_answers'
          /\ score' = 0
          /\ current_level' = current_level]_vars

\* C12, amended: the next handler empties the passage, the question set and
\* the answers, leaves current_level alone, and keeps the score of the round
\* it closes (line 782 is commented out); the score goes back to 0 only
\* when a later start loads new content, or at login and logout
C12_NextKeepsScore ==
    /\ [][event'.kind = "next"
          => /\ current_text' = None /\ current_questions' = None
             /\ user_answers' = << >> /\ ~submitted_answers'
             /\ score' = score
             /\ score' = correct_count(current_questions[1].items, user_answers, 0)
             /\ current_level' = current_level
             /\ user_data_file' = user_data_file]_vars
    /\ [][score # 0 /\ score' = 0
          => \/ event'.kind \in {"login", "logout"}
             \/ (pc = "questions" /\ current_text' # None)]_vars

\* the next button was used on a round graded 4 of 5: the round is empty,
\* the level is the raised one, and the score is still 4
C12_Witness ==
    /\ event.kind = "next"
    /\ current_text = None /\ current_questions = None
    /\ user_answers = << >> /\ ~submitted_answers
    /\ score = 4
    /\ current_level = DEFAULT_LEVEL + 1

\* The set of keys of a JSON object.
KeySet(d) == {d.keys[i] : i \in 1..Len(d.keys)}

NonEmptyStr(v) == v.t = "str" /\ v.s # ""

\* An element with the three fields, a non-empty question string, options
\* that map exactly the four keys A, B, C, D to non-empty strings, and a
\* correct_answer that is one of the four and a key of the options.
WellFormedQuestion(q) ==
    /\ q.t = "dict"
    /\ {"question", "options", "correct_answer"} \subseteq KeySet(q)
    /\ NonEmptyStr(get_item(q, "question"))
    /\ LET options == get_item(q, "options")
           correct == get_item(q, "correct_answer")
       IN /\ options.t = "dict"
          /\ KeySet(options) = {"A", "B", "C", "D"} /\ Len(options.keys) = 4
          /\ \A i \in 1..Len(options.vals) : NonEmptyStr(options.vals[i])
          /\ correct.t = "str"
          /\ correct.s \in {"A", "B", "C", "D"} \cap KeySet(options)

WellFormedSet(parsed) ==
    /\ parsed.t = "list"
    /\ Len(parsed.items) = 5
    /\ \A i \in 1..Len(parsed.items) : WellFormedQuestion(parsed.items[i])

\* C13: the questions request accepts a parsed response exactly when it is
\* a list of exactly 5 elements that are all well formed, and what it then
\* returns is that list, of 5 questions; any other response is rejected
\* and the attempt goes on to the next one
C13_AcceptsExactlyWellFormedSets ==
    (fn_in.kind = "questions" /\ fn_out # None)
    => LET parsed == ParsedSample(fn_in)
       IN /\ (fn_out[1].sig = "return") <=> WellFormedSet(parsed)
          /\ WellFormedSet(parsed)
                => /\ fn_out[1].value = <<parsed>>
                   /\ Len(fn_out[1].value[1].items) = 5
          /\ ~WellFormedSet(parsed)
                => fn_out[1].sig = "next" /\ fn_out[1].value = None

\* a list whose fifth element has an empty option text was rejected
C13_Witness ==
    /\ fn_in.kind = "questions" /\ fn_in.pos = 5
    /\ QuestionSamples[fn_in.sample] = Question("q", Options("uno", "dos", "tres", ""), "A")
    /\ fn_out # None
    /\ fn_out[1].sig = "next" /\ fn_out[1].error = "bad_option_value"

\* The fewest words a passage for a level must have: 80% of the fewest
\* words of the level's range.
EnoughWords(text, level) == text.words * 10 >= words(level)[1] * 8

\* C14: the text request at level L accepts a response text (one that is no
\* refusal) when its word count is at least 80% of the fewest words of
\* the range of L, and rejects every shorter text
C14_AcceptsByWordCount ==
    (/\ fn_in.kind = "text" /\ fn_out # None
     /\ TextSamples[fn_in.sample].phrase = "")
    => ((fn_out[1].sig = "return" /\ fn_out[1].value # None)
          <=> EnoughWords(TextSamples[fn_in.sample], fn_in.level))

\* The history user_data.json holds for a user: the history field of the
\* user's record, empty when the record has none.
History(name) ==
    IF name \in DOMAIN user_data_file /\ "history" \in DOMAIN user_data_file[name]
    THEN user_data_file[name].history
    ELSE << >>

\* C15: each grading event appends exactly one entry (level before, level
\* after, score) to the student's persisted history: after the script run
\* that graded a round, the last entry of the student's stored history is
\* the outcome of that round
C15_GradingAppendsHistory ==
    (StudentView /\ adapted # None)
    => /\ Len(History(username)) >= 1
       /\ History(username)[Len(History(username))] =
             [level_before |-> adapted[1].previous_level,
              level_after |-> adapted[1].new_level,
              score |-> adapted[1].score]

\* C16: the score of a graded round is recomputed to the same value by
\* every later script run: while the round stays loaded, and in the run of
\* the next button that leaves it, the stored score does not change and is
\* the count of correct answers of the unchanged answers and questions
C16_RegradingKeepsScore ==
    [][(RoundSubmitted /\ feedback_given /\ event'.kind \in {"none", "next"})
       => /\ score' = score
          /\ score' = correct_count(current_questions[1].items, user_answers, 0)
          /\ RoundSubmitted'
                => /\ user_answers' = user_answers
                   /\ current_questions' = current_questions
                   /\ feedback_given']_vars

\* a round graded 2 of 5 was rendered again and still shows 2
C16_Witness ==
    /\ RoundSubmitted /\ feedback_given
    /\ event.kind = "none" /\ adapted = None
    /\ score = 2
    /\ correct_count(current_questions[1].items, user_answers, 0) = 2

\* The level user_data.json holds for a user (NoLevel when it holds none).
StoredLevel(data, name) == IF name \in DOMAIN data THEN data[name].level ELSE NoLevel

\* C17: the stored level of an existing user changes only in the script
\* run that grades a round (the adaptation of a round not yet graded) and
\* at logout, and then it becomes the session's level; start, the requests,
\* submit, next, login and registration leave every stored level alone,
\* and no record is ever removed
C17_LevelWrittenAtGradingAndLogout ==
    [][\A name \in DOMAIN user_data_file :
          /\ name \in DOMAIN user_data_file'
          /\ StoredLevel(user_data_file', name) # StoredLevel(user_data_file, name)
                => /\ name = username
                   /\ \/ /\ event'.kind = "none"
                         /\ RoundSubmitted /\ ~feedback_given
                         /\ adapted' # None /\ adapted'[1].level_changed
                         /\ StoredLevel(user_data_file', name) = current_level'
                      \/ /\ event'.kind = "logout"
                         /\ StoredLevel(user_data_file', name) = current_level]_vars

\* the grading run of a round with 1 of 5 correct has just written the
\* lowered level to the student's record
C17_Witness ==
    /\ StudentView /\ event.kind = "none"
    /\ adapted # None /\ adapted[1].level_changed
    /\ adapted[1].previous_level = DEFAULT_LEVEL
    /\ current_level = DEFAULT_LEVEL - 1
    /\ StoredLevel(user_data_file, username) = DEFAULT_LEVEL - 1

\* C18: when the write of the adapted level fails in the grading run, the
\* run ends without an exception, the session holds the adapted level, the
\* round is marked as graded and has been adapted once, and the next
\* button can be used; on a disk whose writes may fail no round is ever
\* adapted twice
C18_FailedWriteKeepsSession ==
    /\ adapt_runs <= 1
    /\ (adapted # None /\ adapted[1].save_failed)
       => /\ ~crashed
          /\ adapted[1].level_changed
          /\ current_level = adapted[1].new_level
          /\ current_level # adapted[1].previous_level
          /\ feedback_given
          /\ adapt_runs = 1
          /\ score = adapted[1].score
          /\ RoundSubmitted
          /\ ENABLED NextText

\* the write failed in the grading run of a round with 5 of 5 correct
C18_Witness ==
    /\ adapted # None /\ adapted[1].save_failed
    /\ adapted[1].score = 5
    /\ current_level = DEFAULT_LEVEL + 1
    /\ StoredLevel(user_data_file, username) = DEFAULT_LEVEL
    /\ feedback_given

\* C19: while a text and its questions are loaded no request is running
\* and the start button cannot be used, and the loaded text and questions
\* change only by being emptied, by the next button, a login or a logout
C19_StartOnlyWhenIdle ==
    /\ [](HasContent => (pc = "idle" /\ ~ENABLED Start))
    /\ [][(/\ HasContent
           /\ \/ current_text' # current_text
              \/ current_questions' # current_questions)
          => /\ event'.kind \in {"next", "login", "logout"}
             /\ current_text' = None /\ current_questions' = None
             /\ pc' = "idle"]_vars

\* a graded round with 1 of 5 correct is shown: a widget can be used, and
\* the start button is not among them
C19_Witness ==
    /\ CanInteract /\ RoundSubmitted /\ feedback_given
    /\ score = 1
    /\ ~ENABLED Start
    /\ ENABLED NextText

\* C20: a registration whose user name is already in user_data.json leaves
\* the file as it is, so the record of that name keeps its password hash,
\* its level and its admin flag, and nobody is logged in by it
C20_TakenNameRejected ==
    [][(event'.kind = "register" /\ event'.username \in DOMAIN user_data_file)
       => /\ user_data_file' = user_data_file
          /\ ~logged_in']_vars

\* a form that is valid but for its name was submitted for a student whose
\* stored level is 4: the record still has level 4 and its password hash
C20_Witness ==
    /\ event.kind = "register"
    /\ event.username = "ana@ufm.edu"
    /\ event.password = "secret1" /\ event.confirm = "secret1"
    /\ "ana@ufm.edu" \in DOMAIN user_data_file
    /\ user_data_file["ana@ufm.edu"].level = DEFAULT_LEVEL + 1
    /\ verify_password(user_data_file["ana@ufm.edu"].hashed_password_with_salt, "secret1")

\* The same student is logged in before and after a step.
SameStudentSession == StudentView /\ StudentView' /\ username' = username

\* C21: within a student's session current_level changes only in the
\* script run that grades a round not yet graded, and then by one level;
\* start, the requests (whatever they return), submit and next leave it
\* as it is
C21_LevelChangesOnlyAtGrading ==
    /\ [][(SameStudentSession /\ current_level' # current_level)
          => /\ event'.kind = "none"
             /\ RoundSubmitted /\ ~feedback_given /\ feedback_given'
             /\ adapted' # None /\ adapted'[1].level_changed
             /\ adapted'[1].previous_level = current_level
             /\ current_level' \in {current_level - 1, current_level + 1}]_vars
    /\ [][(SameStudentSession /\ (pc # "idle" \/ pc' # "idle"
                                 \/ event'.kind \in {"start", "submit", "next"}))
          => current_level' = current_level]_vars

\* a start at level 4 failed: the session, back at the start button, is
\* still at level 4
C21_Witness ==
    /\ StudentView /\ StartFailed
    /\ gen.level = DEFAULT_LEVEL + 1
    /\ current_level = DEFAULT_LEVEL + 1

\* C22: a submit with an unanswered question changes nothing of the round:
\* the stored answers, the submitted and graded flags, the score, the text,
\* the questions and current_level are as before, nothing is written to
\* the file and no rerun is asked for
C22_RejectedSubmitChangesNothing ==
    [][(event'.kind = "submit" /\ ~AllAnswered(event'.temp_answers))
       => /\ UNCHANGED round_vars
          /\ UNCHANGED <<current_level, user_data_file, auth_vars, adapt_runs>>
          /\ ~rerun' /\ pc' = "idle"]_vars

\* a form with only its second question unanswered was submitted in a
\* round at level 4 and the round is as it was loaded
C22_Witness ==
    /\ event.kind = "submit"
    /\ event.temp_answers[1] = NoneStr
    /\ \A i \in QuestionIndexes \ {1} : event.temp_answers[i] # NoneStr
    /\ HasContent /\ ~submitted_answers
    /\ user_answers = << >> /\ score = 0 /\ ~feedback_given
    /\ current_level = DEFAULT_LEVEL + 1

\* A text response the checks of line 171-174 are meant to pass.
TextValidates(response) ==
    /\ ~response.raises /\ response.parts
    /\ response.text.chars > 40
    /\ response.text.phrase = ""

\* A questions response whose text, cleaned as lines 264-269 clean it, is
\* one JSON document that is a well formed question set.
McValidates(response) ==
    /\ ~response.raises /\ ~response.text_raises
    /\ json_loads_ok(clean_json_text(response.text))
    /\ WellFormedSet(json_loads(clean_json_text(response.text)))

\* C23: in both requests the attempt whose response validates ends the
\* loop: the step that receives it returns its text (to the questions
\* request) or its questions (into the session) without a wait, and after
\* a request has returned a result no further call is made for it
C23_FirstValidAttemptReturns ==
    /\ [][\A r \in 1..Len(TextResponses) :
             (TextValidates(TextResponses[r]) /\ TextAttempt(TextResponses[r]))
             => /\ pc' = "questions"
                /\ new_text' = <<strip(TextResponses[r].text)>>
                /\ gen'.text_result = "ok"
                /\ gen'.text_calls = attempt + 1
                /\ gen'.text_sleeps = gen.text_sleeps]_vars
    /\ [][\A r \in 1..Len(McResponses) :
             (McValidates(McResponses[r]) /\ McAttempt(McResponses[r]))
             => /\ pc' = "idle"
                /\ current_questions' = <<GoodList>>
                /\ current_text' = new_text
                /\ gen'.mc_result = "ok"
                /\ gen'.mc_calls = attempt + 1
                /\ gen'.mc_sleeps = gen.mc_sleeps]_vars
    /\ [][(gen.text_result = "ok" /\ gen'.text_calls # gen.text_calls)
          => gen'.text_calls = 0]_vars
    /\ [][(gen.mc_result = "ok" /\ gen'.mc_calls # gen.mc_calls)
          => gen'.mc_calls = 0]_vars
    /\ [](gen.text_result = "ok" => pc # "text")
    /\ [](gen.mc_result = "ok" => pc = "idle")

\* the text request returned at its second call and the questions request
\* at its second call, each after one wait
C23_Witness ==
    /\ event.kind = "start" /\ pc = "idle"
    /\ gen.text_result = "ok" /\ gen.text_calls = 2 /\ Len(gen.text_sleeps) = 1
    /\ gen.mc_result = "ok" /\ gen.mc_calls = 2 /\ Len(gen.mc_sleeps) = 1
    /\ HasContent

\* The waits after the failed attempts 0 .. n-1: 1.5^0, ..., 1.5^(n-1).
WaitsAfter(n) == [k \in 1..n |-> backoff(k - 1)]

\* a / b < c / d for the fractions <<a, b>> and <<c, d>>
Less(x, y) == x[1] * y[2] < y[1] * x[2]

StrictlyIncreasing(waits) ==
    \A k \in 1..(Len(waits) - 1) : Less(waits[k], waits[k + 1])

\* The attempts of a request that failed and were not the last one: all
\* calls made while the request is running or has failed, all but the
\* last one when it has returned a result.
FailedNotLast(calls, result) ==
    IF result = "none" THEN calls ELSE calls - 1

\* C24: in both requests every failed attempt but the last is followed by
\* exactly one wait, of 1.5^k after attempt k (k = 0, 1), so the waits
\* grow strictly; a validating attempt and the last attempt are followed by
\* none, whether the failure was a rejected response, a parse error or an
\* exception
C24_OneGrowingWaitPerFailure ==
    /\ gen.text_calls > 0
          => /\ gen.text_sleeps = WaitsAfter(FailedNotLast(gen.text_calls, gen.text_result))
             /\ StrictlyIncreasing(gen.text_sleeps)
    /\ gen.mc_calls > 0
          => /\ gen.mc_sleeps = WaitsAfter(FailedNotLast(gen.mc_calls, gen.mc_result))
             /\ StrictlyIncreasing(gen.mc_sleeps)
    /\ pc = "text" => gen.text_calls = attempt /\ gen.text_result = "none"
    /\ pc = "questions" => gen.mc_calls = attempt /\ gen.mc_result = "none"
    /\ gen.text_result = "fail" => gen.text_calls = text_max_retries
    /\ gen.mc_result = "fail" => gen.mc_calls = mc_max_retries

\* the questions request failed at its third call on a response that is
\* not JSON, after the waits 1 and 1.5
C24_Witness ==
    /\ gen.mc_result = "fail" /\ gen.mc_calls = 3
    /\ gen.last_error = "JSONDecodeError"
    /\ gen.mc_sleeps = <<(<<1, 1>>), (<<3, 2>>)>>

\* C25: the logout of a student stores the session's level unless the
\* write fails, and a login loads the stored level; so the login of the
\* student whose logout was the latest, and was written, starts at the
\* level that session ended with, whatever was tried in between
C25_LogoutLoginKeepsLevel ==
    /\ [][(event'.kind = "logout" /\ StudentView /\ ~last_logout'[1].save_failed)
          => /\ StoredLevel(user_data_file', username) = current_level
             /\ last_logout'[1].level = current_level]_vars
    /\ [][(event'.kind = "login" /\ StudentView')
          => /\ current_level' = StoredLevel(user_data_file, username')
             /\ user_data_file' = user_data_file]_vars
    /\ [][(/\ event'.kind = "login" /\ StudentView'
           /\ last_logout # None
           /\ last_logout[1].username = username'
           /\ ~last_logout[1].save_failed)
          => current_level' = last_logout[1].level]_vars
    /\ []((last_logout # None /\ ~last_logout[1].save_failed /\ ~logged_in)
          => StoredLevel(user_data_file, last_logout[1].username) = last_logout[1].level)

\* the student has logged in again after a logout at level 5 whose write
\* succeeded, and the new session is at level 5
C25_Witness ==
    /\ event.kind = "login" /\ StudentView
    /\ event.resumed # None
    /\ event.resumed[1].username = username
    /\ ~event.resumed[1].save_failed
    /\ event.resumed[1].level = DEFAULT_LEVEL + 2
    /\ current_level = DEFAULT_LEVEL + 2

\* C26: within a start the questions request runs only once the text
\* request has returned a text, it is given that text, and it makes no call
\* when the text request failed; the text is requested at the level the
\* session has when the start button is used
C26_QuestionsAfterText ==
    /\ [](pc = "questions"
            => /\ gen.text_result = "ok"
               /\ new_text # None /\ gen.mc_text = new_text)
    /\ [](gen.mc_calls > 0
            => /\ gen.text_result = "ok" /\ gen.text_calls > 0
               /\ gen.mc_text # None)
    /\ [](gen.text_result = "fail"
            => gen.mc_calls = 0 /\ gen.mc_text = None /\ pc = "idle")
    /\ [](gen.text_result = "none" => gen.mc_calls = 0 /\ pc # "questions")
    /\ [][event'.kind = "start" /\ event.kind # "start"
            => /\ gen'.level = current_level
               /\ pc' = "text" /\ gen'.text_calls = 0 /\ gen'.mc_calls = 0]_vars
    /\ [](pc # "idle" => gen.level = current_level /\ event.kind = "start")
    /\ [][(pc = "text" /\ pc' = "questions")
            => /\ gen'.mc_text = new_text' /\ new_text' # None
               /\ gen'.mc_calls = 0]_vars
    /\ [][(pc = "questions" /\ pc' = "questions")
            => /\ new_text' = new_text /\ gen'.mc_text = gen.mc_text]_vars

\* at level 4 the text request has returned a text at its third call and
\* the questions request, given that text, has made one call
C26_Witness ==
    /\ pc = "questions"
    /\ gen.level = DEFAULT_LEVEL + 1 /\ current_level = DEFAULT_LEVEL + 1
    /\ gen.text_calls = 3 /\ gen.text_result = "ok"
    /\ gen.mc_calls = 1
    /\ new_text # None /\ gen.mc_text = new_text

\* C27: in every state the session holds a text exactly when it holds
\* questions, and a step changes both or neither from absent to present
\* and back
C27_TextAndQuestionsTogether ==
    /\ []((current_text = None) <=> (current_questions = None))
    /\ []((current_text # None) => Len(current_questions[1].items) = NUM_QUESTIONS)
    /\ [][((current_text' = None) # (current_text = None))
          <=> ((current_questions' = None) # (current_questions = None))]_vars

\* the next button has emptied a round graded 3 of 5: no text, no questions
C27_Witness ==
    /\ event.kind = "next" /\ score = 3
    /\ current_text = None /\ current_questions = None

\* C28: whenever the round is marked as submitted, questions are loaded
\* and the stored answers give an answer that is not None for each of the
\* indexes 0..4 and for nothing else; every level adaptation is made on
\* such a round
C28_SubmittedMeansAllAnswered ==
    /\ submitted_answers
          => /\ HasContent /\ StudentView
             /\ Len(current_questions[1].items) = 5
             /\ DOMAIN user_answers = 0..4
             /\ \A i \in 0..4 : user_answers[i] \in {"A", "B", "C", "D"}
    /\ adapted # None => submitted_answers

\* a submitted round whose answers are A, B, A, B, A waits for its
\* first rendering
C28_Witness ==
    /\ submitted_answers /\ ~feedback_given /\ rerun
    /\ event.kind = "submit"
    /\ user_answers = [i \in 0..4 |-> IF i \in {0, 2, 4} THEN "A" ELSE "B"]

\* C29: a round that is loaded and not submitted has no stored answers,
\* the score 0 and is not graded, whether it follows a graded round, a
\* failed start or a login
C29_ReadyRoundIsFresh ==
    (HasContent /\ ~submitted_answers)
    => /\ user_answers = << >>
       /\ score = 0
       /\ ~feedback_given
       /\ adapt_runs = 0

\* a round was loaded at level 4, so after a round that was graded with a
\* score of 4 or 5, and it has no answers, no score and no flags
C29_Witness ==
    /\ HasContent /\ ~submitted_answers
    /\ event.kind = "start" /\ gen.mc_result = "ok"
    /\ current_level = DEFAULT_LEVEL + 1
    /\ user_answers = << >> /\ score = 0 /\ ~feedback_given

\* C30: when two sessions of different users interleave their loads and
\* saves of the user store (a registration, the level saved at grading or at
\* logout), every user's stored record stays as the user's own session wrote
\* it last: the account is in the file, with the level its owner saved last.
C30_NoRecordLostOrReverted ==
    \A u \in DOMAIN owner_level :
        owner_level[u] # NoLevel =>
            /\ u \in DOMAIN user_data_file
            /\ user_data_file[u].level = owner_level[u]

\* C31: once a submit has been accepted the stored answers of the round do
\* not change: a further submit on the round changes nothing of the round
\* (answers, flags, score, level, content, stored levels), and in every step
\* the answers stay as submitted unless the step is a next, a login or a
\* logout, which resets the round.
C31_SubmittedAnswersAreFinal ==
    [][submitted_answers =>
          /\ (event'.kind = "submit" =>
                 UNCHANGED <<user_answers, submitted_answers, score, feedback_given,
                             current_level, current_text, current_questions,
                             user_data_file>>)
          /\ \/ user_answers' = user_answers /\ submitted_answers'
             \/ /\ event'.kind \in {"next", "login", "logout"}
                /\ user_answers' = << >>
                /\ ~submitted_answers']_vars

\* a submit with other answers arrived on a round already submitted and
\* shown with its results
C31_Witness ==
    /\ event.kind = "submit"
    /\ submitted_answers /\ ~rerun /\ feedback_given
    /\ event.temp_answers # user_answers
    /\ answered_all(event.temp_answers)

\* the session holds nothing of a round
CleanRound ==
    /\ current_text = None /\ current_questions = None
    /\ user_answers = << >>
    /\ ~submitted_answers /\ ~feedback_given
    /\ score = 0

\* C32: a successful login starts from a clean round: right after it the
\* passage and the questions are absent, the answers empty, the submitted
\* and graded flags false and the score 0; and while nobody is logged in the
\* session holds nothing of the round of the user who logged out, so the
\* next user finds nothing of it.
C32_LoginStartsClean ==
    /\ [][(event'.kind = "login" /\ ~logged_in /\ logged_in') => CleanRound']_vars
    /\ [](~logged_in => CleanRound)

\* another user has logged in to a session whose previous user logged out
\* with a round loaded
C32_Witness ==
    /\ event.kind = "login" /\ logged_in
    /\ event.resumed # None
    /\ event.resumed[1].round_left
    /\ event.resumed[1].username # username
    /\ CleanRound

\* C33: while an administrator is logged in the session has no level and
\* holds no passage, no questions, no answers and no graded round, no
\* request is in progress, and no step taken by the administrator (logout
\* included) changes the stored records.
C33_AdminHoldsNoRound ==
    /\ []((logged_in /\ is_admin) =>
             /\ current_level = NoLevel
             /\ CleanRound
             /\ pc = "idle" /\ gen = GenNone /\ adapted = None)
    /\ [][(logged_in /\ is_admin) => user_data_file' = user_data_file]_vars

\* the administrator looks at the panel after a student's level has changed
C33_Witness ==
    /\ logged_in /\ is_admin /\ ~rerun
    /\ event = NoEvent
    /\ \E u \in DOMAIN user_data_file :
          /\ ~user_data_file[u].is_admin
          /\ user_data_file[u].level # DEFAULT_LEVEL

\* the calls of the generation capability made by the script run so far
CallsMade == gen.text_calls + gen.mc_calls

\* C34: every round start ends within text_max_retries passage calls and
\* mc_max_retries question calls (6 calls in all), whatever each call returns
\* or raises: while a request is in progress a call can be made and fewer
\* calls than the limit have been made, every step made then is one call
\* that either ends the start or leaves one call less, and a start that has
\* ended left the round either ready (passage and questions) or idle
\* (neither).
C34_StartEndsWithinSixCalls ==
    /\ [](/\ gen.text_calls <= text_max_retries
          /\ gen.mc_calls <= mc_max_retries
          /\ CallsMade <= text_max_retries + mc_max_retries)
    /\ []((pc = "text") =>
             /\ gen.text_calls < text_max_retries /\ gen.mc_calls = 0
             /\ ENABLED (\E r \in 1..Len(TextResponses) : TextAttempt(TextResponses[r])))
    /\ []((pc = "questions") =>
             /\ gen.mc_calls < mc_max_retries
             /\ ENABLED (\E r \in 1..Len(McResponses) : McAttempt(McResponses[r])))
    /\ [][(pc # "idle") => (pc' = "idle" \/ CallsMade' = CallsMade + 1)]_vars
    /\ []((event.kind = "start" /\ pc = "idle") =>
             \/ HasContent /\ gen.mc_result = "ok"
             \/ current_text = None /\ current_questions = None)

\* a start that ended ready with its sixth call
C34_Witness ==
    /\ event.kind = "start" /\ pc = "idle"
    /\ gen.text_calls = text_max_retries
    /\ gen.mc_calls = mc_max_retries
    /\ gen.mc_result = "ok" /\ HasContent

\* C35: registration creates student accounts only: a registration that
\* changes the store adds one new record, with is_admin false and level
\* DEFAULT_LEVEL, and leaves every other record as it was; no step removes
\* an account or changes the admin flag of one; and the only administrator
\* in the store is the one the first load created.
C35_RegistrationCreatesStudents ==
    /\ [][(event'.kind = "register" /\ user_data_file' # user_data_file) =>
             /\ event'.username \notin DOMAIN user_data_file
             /\ DOMAIN user_data_file' = DOMAIN user_data_file \cup {event'.username}
             /\ ~user_data_file'[event'.username].is_admin
             /\ user_data_file'[event'.username].level = DEFAULT_LEVEL
             /\ \A u \in DOMAIN user_data_file :
                   user_data_file'[u] = user_data_file[u]]_vars
    /\ [][\A u \in DOMAIN user_data_file :
             /\ u \in DOMAIN user_data_file'
             /\ user_data_file'[u].is_admin = user_data_file[u].is_admin]_vars
    /\ [](\A u \in DOMAIN user_data_file :
             user_data_file[u].is_admin <=> u = ADMIN_USER)

\* a registration has added a student to the store
C35_Witness ==
    /\ event.kind = "register"
    /\ event.username # ADMIN_USER
    /\ event.username \in DOMAIN user_data_file
    /\ ~user_data_file[event.username].is_admin
    /\ user_data_file[event.username].level = DEFAULT_LEVEL
    /\ Cardinality(DOMAIN user_data_file) = 2

====
